---------------------------- MODULE Spec2Model ----------------------------
(***************************************************************************)
(* A model of the chatbot repository:                                      *)
(*   train_data.py   VectorStoreManager (add_texts, similarity_search,     *)
(*                   _save_data, _load_data, _cosine_similarity)           *)
(*   agent_tools.py  AgentTools (create_agent, train_agent_from_text,      *)
(*                   add_knowledge)                                        *)
(*   agentic_bot.py  AgenticBot.answer_question, _format_history           *)
(*   conversational_ai.py  ConversationalAI (process_user_input,           *)
(*                   clear_history, get_history)                           *)
(*   app.py          the two module-level VectorStoreManager instances,    *)
(*                   the one ConversationalAI, and the routes upload, ask, *)
(*                   clear, chat, chat history, chat_agent, get_agent,     *)
(*                   add_knowledge, delete_agent                           *)
(*                                                                         *)
(* The specifications share the variables:                                 *)
(*   StoreSpec    one VectorStoreManager over one persist directory, with  *)
(*                every failure of the provider and of the file system;    *)
(*   SearchSpec   similarity_search with several queries and k over the    *)
(*                stores add_texts builds;                                 *)
(*   PairSpec     add_texts with several texts and several metadata;       *)
(*   DimSpec      a provider whose dimensionality is not fixed;            *)
(*   ComposeSpec  answer_question over the stores of SearchSpec;           *)
(*   HistorySpec  _format_history over the histories of a caller;          *)
(*   Spec         the program: the global directory with its two           *)
(*                long-lived managers, the agents and their per-call       *)
(*                managers.                                                *)
(*   ChatSpec     the /chat routes of two browsers over the one            *)
(*                conversation_history;                                    *)
(*   RaceSpec     two threads in add_texts on one manager, statement by    *)
(*                statement;                                               *)
(*   TrainSpec    two threads in train_agent_from_text;                    *)
(*   AskSpec      POST /ask and POST /clear over the stores of SearchSpec; *)
(*   AgentSpec    the program with the routes of one agent.                *)
(*                                                                         *)
(* Spec follows one run of the process from empty directories.             *)
(* Python lists are sequences; Python's 0-based index i is position i+1.   *)
(* The process is taken to run with its working directory equal to the     *)
(* directory of app.py, so that the relative paths "agents" and            *)
(* "vector_store" of agentic_bot.py:54 name AGENTS_DIR and VECTOR_DIR.     *)
(***************************************************************************)
EXTENDS Integers, Sequences, FiniteSets, TLC

VARIABLES
    disk,        \* persist directory -> what is on durable storage there
    vm,          \* long-lived VectorStoreManager instance -> its three lists
    agents,      \* AgentTools.agents of app.agent_tools (in memory)
    agentFiles,  \* AGENTS_DIR/<id>.json on disk
    usedIds,     \* agent ids uuid4 has already produced
    conversation_history,  \* app.conversational_ai.conversation_history
    session,     \* browser -> session["history"] of its Flask session cookie
    threads,     \* request thread -> where it is in its handler and its locals
    last         \* the outcome of the last operation, as its caller sees it

vars == <<disk, vm, agents, agentFiles, usedIds, conversation_history, session,
          threads, last>>

---------------------------------------------------------------------------
(* Bounds of the model *)

MaxDocs == 3        \* chunks one store holds in StoreSpec
MaxTexts == 2       \* texts of one add_texts call in StoreSpec
MaxProgDocs == 1    \* chunks one store holds in Spec

(* Program constants *)
AnswerK == 5        \* k of answer_question's similarity_search

---------------------------------------------------------------------------
(* Small helpers *)

Min(a, b) == IF a < b THEN a ELSE b

Abs(a) == IF a < 0 THEN -a ELSE a

Range(s) == {s[i] : i \in 1..Len(s)}

IsPrefix(s, t) == Len(s) <= Len(t) /\ SubSeq(t, 1, Len(s)) = s

RECURSIVE SumTo(_, _)
SumTo(f, n) == IF n = 0 THEN 0 ELSE f[n] + SumTo(f, n - 1)

SeqsUpTo(S, lo, hi) == UNION {[1..n -> S] : n \in lo..hi}

---------------------------------------------------------------------------
(* Metadata: a Python dict, as its set of <<key, value>> items *)

EmptyMeta == {}

SourceMeta(source) == {<<"source", source>>}

---------------------------------------------------------------------------
(* The chunker: RecursiveCharacterTextSplitter(1200, 200).split_text.      *)
(* A text is named by a string; short texts give one chunk, the empty and  *)
(* the blank text none, the long texts two chunks.                         *)

split_text(text) ==
    CASE text = ""    -> <<>>
      [] text = " "   -> <<>>
      [] text = "xy"  -> <<"x", "y">>
      [] OTHER        -> <<text>>

(* The embedding provider: one vector per text, as a function of the text. *)
EmbeddingOf(text) ==
    CASE text = "x"   -> <<1, 0>>
      [] text = "y"   -> <<0, 1>>
      [] text = "z"   -> <<1, 1>>
      [] text = "p"   -> <<1, 0>>
      [] text = "q"   -> <<1, 1>>
      [] text = "qx"  -> <<1, 0>>
      [] text = "qz"  -> <<1, 1>>
      [] text = "q0"  -> <<0, 0>>
      [] OTHER        -> <<0, 0>>

(* The vector of a provider whose model has one dimension more: the model  *)
(* is an argument of the constructor, and the snapshot outlives the        *)
(* manager and the model it was written with.                              *)
WideEmbeddingOf(text) == EmbeddingOf(text) \o <<0>>

(* embeddings.embed_documents(chunks): raises, or one vector per chunk in  *)
(* the order of the chunks ("wide": from the model of the other            *)
(* dimensionality).                                                        *)
embed_documents(chunks, resp) ==
    IF resp = "fail"
    THEN [raised |-> TRUE, vectors |-> <<>>]
    ELSE IF resp = "wide"
    THEN [raised |-> FALSE,
          vectors |-> [i \in 1..Len(chunks) |-> WideEmbeddingOf(chunks[i])]]
    ELSE [raised |-> FALSE,
          vectors |-> [i \in 1..Len(chunks) |-> EmbeddingOf(chunks[i])]]

(* embeddings.embed_query(query) *)
embed_query(query, resp) ==
    IF resp = "fail"
    THEN [raised |-> TRUE, vector |-> <<>>]
    ELSE [raised |-> FALSE, vector |-> EmbeddingOf(query)]

GatewayResponses == {"ok", "fail"}

---------------------------------------------------------------------------
(* VectorStoreManager *)

(* What a persist directory holds: no directory, a directory without        *)
(* vector_store.pkl, a file pickle cannot read, or a pickled dict.          *)
NoDir == [kind |-> "nodir"]
NoFile == [kind |-> "nofile"]
Corrupt == [kind |-> "corrupt"]

(* __init__: the three lists before _load_data *)
EmptyStore == [documents |-> <<>>, doc_embeddings |-> <<>>, metadatas |-> <<>>]

(* os.makedirs(persist_directory, exist_ok=True) *)
makedirs(content) == IF content = NoDir THEN NoFile ELSE content

(* _save_data: the dict pickle.dump writes *)
save_data(store) ==
    [kind |-> "pickle",
     documents |-> store.documents,
     embeddings |-> store.doc_embeddings,
     metadatas |-> store.metadatas]

(* A _load_data that reads the embeddings under the attribute's name *)
load_data_wrong_key(content) ==
    IF content.kind = "pickle"
    THEN [documents |-> content.documents, doc_embeddings |-> <<>>,
          metadatas |-> content.metadatas]
    ELSE EmptyStore

(* __init__ followed by _load_data: the lists stay empty when the file is  *)
(* missing or pickle.load raises.                                          *)
load_data(content) ==
    IF content.kind = "pickle"
    THEN [documents |-> content.documents,
          doc_embeddings |-> content.embeddings,
          metadatas |-> content.metadatas]
    ELSE EmptyStore

(* A constructor that writes the snapshot back after loading it *)
init_manager_rewriting(content) ==
    [store |-> load_data(makedirs(content)),
     content |-> save_data(load_data(makedirs(content))),
     raised |-> FALSE]

(* A constructor that lets the exception of pickle.load through *)
init_manager_unguarded(content) ==
    [store |-> load_data(makedirs(content)),
     content |-> makedirs(content),
     raised |-> makedirs(content) = Corrupt]

(* VectorStoreManager(persist_directory): the directory is made, the lists *)
(* are set empty and _load_data fills them; _load_data catches whatever    *)
(* open and pickle.load raise.                                             *)
init_manager(content) ==
    [store |-> load_data(makedirs(content)),
     content |-> makedirs(content),
     raised |-> FALSE]

(* _cosine_similarity(a, b).  The float dot/(|a|*|b|) is kept as the exact *)
(* pair <<s, d>>, d > 0, standing for sign(dot) * sqrt(|s| / d): s is      *)
(* dot*|dot| and d is |a|^2 * |b|^2.  zip stops at the shorter vector.     *)
Dot(a, b) == SumTo([i \in 1..Min(Len(a), Len(b)) |-> a[i] * b[i]], Min(Len(a), Len(b)))

SqNorm(a) == SumTo([i \in 1..Len(a) |-> a[i] * a[i]], Len(a))

cosine_similarity(a, b) ==
    IF SqNorm(a) = 0 \/ SqNorm(b) = 0
    THEN <<0, 1>>
    ELSE <<Dot(a, b) * Abs(Dot(a, b)), SqNorm(a) * SqNorm(b)>>

SimGreater(s, t) == s[1] * t[2] > t[1] * s[2]

SimEqual(s, t) == s[1] * t[2] = t[1] * s[2]

(* An ascending comparison of the (similarity, i) tuples *)
TupleGreaterAscending(p, q) ==
    \/ SimGreater(q[1], p[1])
    \/ SimEqual(p[1], q[1]) /\ p[2] < q[2]

(* Python's order on the tuples (similarity, i) *)
TupleGreater(p, q) ==
    \/ SimGreater(p[1], q[1])
    \/ SimEqual(p[1], q[1]) /\ p[2] > q[2]

(* similarities.sort(reverse=True): the tuples from the greatest down *)
RECURSIVE SortReverse(_)
SortReverse(S) ==
    IF S = {} THEN <<>>
    ELSE LET m == CHOOSE p \in S : \A q \in S \ {p} : TupleGreater(p, q)
         IN  <<m>> \o SortReverse(S \ {m})

(* A slice that keeps one entry more *)
TopKOneMore(s, k) == SubSeq(s, 1, Min(k + 1, Len(s)))

(* similarities[:k], k >= 0 *)
TopK(s, k) == SubSeq(s, 1, Min(k, Len(s)))

(* A test that never takes the early return *)
IsEmptyNever(store) == FALSE

(* not self.documents *)
IsEmpty(store) == store.documents = <<>>

(* similarity_search(query, k): the results, the indices they were taken   *)
(* from, and what happened on the way.                                     *)
similarity_search(store, query, k, resp) ==
    IF IsEmpty(store)
    THEN [results |-> <<>>, indices |-> <<>>, embedCalls |-> 0, outcome |-> "empty"]
    ELSE LET qe == embed_query(query, resp)
         IN  IF qe.raised
             THEN [results |-> <<>>, indices |-> <<>>, embedCalls |-> 1,
                   outcome |-> "embed_failed"]
             ELSE LET similarities ==
                          {<<cosine_similarity(qe.vector, store.doc_embeddings[i]), i>> :
                              i \in 1..Len(store.doc_embeddings)}
                      sorted == SortReverse(similarities)
                      top == TopK(sorted, k)
                      top_k_indices == [j \in 1..Len(top) |-> top[j][2]]
                  IN  [results |->
                          [j \in 1..Len(top_k_indices) |->
                              [page_content |-> store.documents[top_k_indices[j]],
                               metadata |->
                                  IF top_k_indices[j] <= Len(store.metadatas)
                                  THEN store.metadatas[top_k_indices[j]]
                                  ELSE EmptyMeta]],
                       indices |-> top_k_indices,
                       embedCalls |-> 1,
                       outcome |-> "ok"]

---------------------------------------------------------------------------
(* add_texts *)

RECURSIVE Concat(_)
Concat(ss) == IF ss = <<>> THEN <<>> ELSE Head(ss) \o Concat(Tail(ss))

(* A base_meta that is the first metadata whatever the text *)
BaseMetaFirst(metadatas, idx) ==
    IF metadatas # <<>> THEN metadatas[1] ELSE EmptyMeta

(* metadatas[idx] if metadatas and idx < len(metadatas) else {}            *)
(* (None and the empty list are both the empty sequence here)              *)
BaseMeta(metadatas, idx) ==
    IF metadatas # <<>> /\ idx <= Len(metadatas) THEN metadatas[idx] ELSE EmptyMeta

(* One metadata per text, whatever the number of its chunks *)
BroadcastOnce(meta, n) == <<meta>>

(* [base_meta] * len(splits) *)
Broadcast(meta, n) == [i \in 1..n |-> meta]

(* The chunks accumulated over the texts, in the order of the texts *)
ChunksOf(texts) == Concat([idx \in 1..Len(texts) |-> split_text(texts[idx])])

(* The metadata accumulated beside them *)
MetasOf(texts, metadatas) ==
    Concat([idx \in 1..Len(texts) |->
               Broadcast(BaseMeta(metadatas, idx), Len(split_text(texts[idx])))])

(* What the open(..., 'wb') / pickle.dump of _save_data can do *)
SaveResponses == {"ok", "open_fails", "dump_fails"}

WriteSnapshot(store, content, saveResp) ==
    CASE saveResp = "ok"         -> save_data(store)
      [] saveResp = "open_fails" -> content
      [] OTHER                   -> Corrupt

(* An add_texts that extends the documents before it asks for embeddings *)
add_texts_append_first(store, content, texts, metadatas, resp, saveResp) ==
    LET chunks == ChunksOf(texts)
        metas == MetasOf(texts, metadatas)
        emb == embed_documents(chunks, resp)
        grown == [documents |-> store.documents \o chunks,
                  doc_embeddings |-> store.doc_embeddings \o emb.vectors,
                  metadatas |-> store.metadatas \o metas]
    IN  IF chunks = <<>>
        THEN [store |-> store, content |-> content, raised |-> FALSE,
              embedCalls |-> 0, outcome |-> "noop"]
        ELSE IF emb.raised
        THEN [store |-> [store EXCEPT !.documents = store.documents \o chunks],
              content |-> content, raised |-> TRUE,
              embedCalls |-> 1, outcome |-> "embed_failed"]
        ELSE [store |-> grown, content |-> WriteSnapshot(grown, content, saveResp),
              raised |-> saveResp # "ok", embedCalls |-> 1,
              outcome |-> IF saveResp = "ok" THEN "ok" ELSE "save_failed"]

(* An add_texts without the early return for an empty list of chunks *)
add_texts_no_early_return(store, content, texts, metadatas, resp, saveResp) ==
    LET chunks == ChunksOf(texts)
        metas == MetasOf(texts, metadatas)
        emb == embed_documents(chunks, resp)
        grown == [documents |-> store.documents \o chunks,
                  doc_embeddings |-> store.doc_embeddings \o emb.vectors,
                  metadatas |-> store.metadatas \o metas]
    IN  IF emb.raised
        THEN [store |-> store, content |-> content, raised |-> TRUE,
              embedCalls |-> 1, outcome |-> "embed_failed"]
        ELSE [store |-> grown, content |-> WriteSnapshot(grown, content, saveResp),
              raised |-> saveResp # "ok", embedCalls |-> 1,
              outcome |-> IF saveResp = "ok" THEN "ok" ELSE "save_failed"]

(* add_texts(texts, metadatas) on a manager holding `store` over a         *)
(* directory holding `content`: the manager and the directory afterwards,  *)
(* and whether the call raised.                                            *)
add_texts(store, content, texts, metadatas, resp, saveResp) ==
    LET chunks == ChunksOf(texts)
        metas == MetasOf(texts, metadatas)
        emb == embed_documents(chunks, resp)
        grown == [documents |-> store.documents \o chunks,
                  doc_embeddings |-> store.doc_embeddings \o emb.vectors,
                  metadatas |-> store.metadatas \o metas]
    IN  IF chunks = <<>>
        THEN [store |-> store, content |-> content, raised |-> FALSE,
              embedCalls |-> 0, outcome |-> "noop"]
        ELSE IF emb.raised
        THEN [store |-> store, content |-> content, raised |-> TRUE,
              embedCalls |-> 1, outcome |-> "embed_failed"]
        ELSE [store |-> grown, content |-> WriteSnapshot(grown, content, saveResp),
              raised |-> saveResp # "ok", embedCalls |-> 1,
              outcome |-> IF saveResp = "ok" THEN "ok" ELSE "save_failed"]

---------------------------------------------------------------------------
(* Directories and the long-lived managers *)

(* The ids uuid4 can give *)
AgentIds == {"a1", "a2"}

(* VECTOR_DIR *)
GlobalDir == <<"vector_store">>

(* A path that does not depend on the agent *)
AgentDirShared(agent_id) == <<"vector_store", "agent_", "a1">>

(* os.path.join(self.vector_dir, f"agent_{agent_id}") *)
AgentDir(agent_id) == <<"vector_store", "agent_", agent_id>>

Dirs == {GlobalDir} \cup {<<"vector_store", "agent_", a>> : a \in AgentIds}

(* app.vector_manager and app.agent_tools.vector_manager, both over VECTOR_DIR *)
Handles == {"app", "tools"}

Idle == [op |-> "init", h |-> "-", ns |-> "-", outcome |-> "-", raised |-> FALSE,
         embedCalls |-> 0, llmCalls |-> 0, results |-> <<>>, indices |-> <<>>,
         sources |-> <<>>, query |-> "-", k |-> 0, chunks |-> <<>>,
         before |-> EmptyStore, diskBefore |-> NoDir, searchOutcome |-> "-",
         context |-> <<>>, history |-> <<>>, historyBlock |-> <<>>,
         texts |-> <<>>, metadatas |-> <<>>,
         browser |-> "-", served |-> <<>>, convBefore |-> <<>>, response |-> "-",
         sessionBefore |-> <<>>, knowledge_items |-> 0]

(* The browsers that talk to the application, each with its own session    *)
(* cookie                                                                  *)
Browsers == {"b1", "b2"}

(* The request threads of the threaded server *)
Threads == {"t1", "t2"}

(* A thread that serves no request *)
IdleThread ==
    [pc |-> "idle", chunks |-> <<>>, vectors |-> <<>>, metas |-> <<>>,
     store |-> EmptyStore, overlapped |-> FALSE,
     agent |-> "-", text |-> "-", outcome |-> "-"]

(* Module import of app.py: the directories are made, both managers load   *)
(* VECTOR_DIR, no agent exists.                                            *)
Init ==
    /\ disk = [d \in Dirs |-> IF d = GlobalDir THEN NoFile ELSE NoDir]
    /\ vm = [h \in Handles |-> EmptyStore]
    /\ agents = <<>>
    /\ agentFiles = <<>>
    /\ usedIds = {}
    /\ conversation_history = <<>>
    /\ session = [b \in Browsers |-> <<>>]
    /\ threads = [t \in Threads |-> IdleThread]
    /\ last = Idle

---------------------------------------------------------------------------
(* One VectorStoreManager (the handle "app") over VECTOR_DIR.              *)
(*                                                                         *)
(* StoreSpec   construction, add_texts with every failure of the provider  *)
(*             and of the file system, similarity_search with its default  *)
(*             k;                                                          *)
(* SearchSpec  similarity_search with several queries and k over every     *)
(*             store add_texts can build.  similarity_search reads the     *)
(*             manager's three lists only, and a failed add_texts leaves   *)
(*             in them either what was there or what a successful one      *)
(*             leaves, so the adds of SearchSpec are the successful ones.  *)

StoreTexts == {"", "x", "z", "xy"}
SearchTexts == {"x", "y", "z"}
StoreLabels == {"s1"}
Queries == {"qx", "qz", "q0"}
DefaultK == 4       \* k of similarity_search when the caller gives none
Ks == {1, 2, AnswerK}

(* What the provider and the file system do during one add_texts: the      *)
(* snapshot is written only after the embeddings came back.                *)
AddEnvironments ==
    {<<"fail", "ok">>} \cup {<<"ok", s>> : s \in SaveResponses}

(* VectorStoreManager(persist_directory=VECTOR_DIR): a new instance takes  *)
(* the place of the old one.                                               *)
StoreConstruct ==
    LET r == init_manager(disk[GlobalDir])
    IN  /\ disk' = [disk EXCEPT ![GlobalDir] = r.content]
        /\ vm' = [vm EXCEPT !["app"] = r.store]
        /\ last' = [Idle EXCEPT !.op = "construct", !.h = "app",
                                !.raised = r.raised, !.before = vm["app"],
                                !.diskBefore = disk[GlobalDir]]
        /\ UNCHANGED <<agents, agentFiles, usedIds,
                       conversation_history, session, threads>>

AddTextsWith(textLists, environments, maxDocs) ==
    \E texts \in textLists :
      /\ Len(vm["app"].documents) + Len(ChunksOf(texts)) <= maxDocs
      /\ \E env \in environments,
            metadatas \in SeqsUpTo({SourceMeta(l) : l \in StoreLabels}, 0, Len(texts)) :
           LET r == add_texts(vm["app"], disk[GlobalDir], texts, metadatas, env[1], env[2])
           IN  /\ vm' = [vm EXCEPT !["app"] = r.store]
               /\ disk' = [disk EXCEPT ![GlobalDir] = r.content]
               /\ last' = [Idle EXCEPT !.op = "add", !.h = "app", !.outcome = r.outcome,
                                       !.raised = r.raised, !.embedCalls = r.embedCalls,
                                       !.chunks = ChunksOf(texts),
                                       !.before = vm["app"],
                                       !.diskBefore = disk[GlobalDir]]
               /\ UNCHANGED <<agents, agentFiles, usedIds,
                              conversation_history, session, threads>>

SearchWith(queries, ks) ==
    \E query \in queries, k \in ks, resp \in GatewayResponses :
        LET r == similarity_search(vm["app"], query, k, resp)
        IN  /\ last' = [Idle EXCEPT !.op = "search", !.h = "app", !.outcome = r.outcome,
                                    !.embedCalls = r.embedCalls, !.results = r.results,
                                    !.indices = r.indices, !.query = query, !.k = k]
            /\ UNCHANGED <<disk, vm, agents, agentFiles, usedIds,
                           conversation_history, session, threads>>

StoreAddTexts == AddTextsWith(SeqsUpTo(StoreTexts, 1, MaxTexts), AddEnvironments, MaxDocs)

StoreSearch == SearchWith({"qx"}, {DefaultK})

StoreNext == StoreConstruct \/ StoreAddTexts \/ StoreSearch

StoreSpec == Init /\ [][StoreNext]_vars

SearchAddTexts == AddTextsWith({<<t>> : t \in SearchTexts}, {<<"ok", "ok">>}, MaxDocs)

SearchSearch == SearchWith(Queries, Ks)

SearchNext == SearchAddTexts \/ SearchSearch

SearchSpec == Init /\ [][SearchNext]_vars

(* PairSpec: add_texts with several texts and metadata of several sources, *)
(* the provider and the file system working.                               *)
PairTexts == {"", "x", "xy"}
PairLabels == {"s1", "s2"}

PairAddTexts ==
    \E texts \in SeqsUpTo(PairTexts, 1, MaxTexts) :
      /\ Len(vm["app"].documents) + Len(ChunksOf(texts)) <= MaxDocs
      /\ \E metadatas \in SeqsUpTo({SourceMeta(l) : l \in PairLabels}, 0, Len(texts)) :
           LET r == add_texts(vm["app"], disk[GlobalDir], texts, metadatas, "ok", "ok")
           IN  /\ vm' = [vm EXCEPT !["app"] = r.store]
               /\ disk' = [disk EXCEPT ![GlobalDir] = r.content]
               /\ last' = [Idle EXCEPT !.op = "add", !.h = "app", !.outcome = r.outcome,
                                       !.raised = r.raised, !.embedCalls = r.embedCalls,
                                       !.chunks = ChunksOf(texts),
                                       !.texts = texts, !.metadatas = metadatas,
                                       !.before = vm["app"],
                                       !.diskBefore = disk[GlobalDir]]
               /\ UNCHANGED <<agents, agentFiles, usedIds,
                              conversation_history, session, threads>>

PairNext == PairAddTexts \/ StoreSearch

PairSpec == Init /\ [][PairNext]_vars

(* DimSpec: one manager over VECTOR_DIR whose provider answers from a      *)
(* model of two or of three dimensions.  Nothing in the program fixes the  *)
(* model a directory is used with: it is the constructor's argument, and   *)
(* the provider serves whatever its model tag names at the time.           *)
DimEnvironments == {<<"ok", "ok">>, <<"wide", "ok">>}

DimAddTexts == AddTextsWith({<<t>> : t \in SearchTexts}, DimEnvironments, MaxDocs)

DimSearch == SearchWith({"qx"}, {DefaultK})

DimNext == StoreConstruct \/ DimAddTexts \/ DimSearch

DimSpec == Init /\ [][DimNext]_vars

---------------------------------------------------------------------------
(* Spec: the program.  VECTOR_DIR is held by app.vector_manager (which the *)
(* bot queries) and by agent_tools.vector_manager; every agent operation   *)
(* opens its own VectorStoreManager over the agent's directory.            *)

(* The texts of the program's inputs.  Every namespace is given texts of   *)
(* its own, so that a chunk names the namespace it was written for, and    *)
(* in the global namespace the manager it was written through: "x" is      *)
(* uploaded, "y" is given to add_knowledge, AgentText(a) with the source   *)
(* AgentSource(a) is trained into agent a.  The blank text, which has no   *)
(* chunk, goes to all of them.                                             *)
UploadTexts == {" ", "x"}
KnowledgeTexts == {" ", "y"}

AgentText(agent_id) == IF agent_id = "a1" THEN "p" ELSE "q"

AgentSource(agent_id) == IF agent_id = "a1" THEN "doc-p" ELSE "doc-q"

ProgQueries == {"qx"}
LlmResponses == {"ok", "fail"}

(* agent.get("vector_store_path") of an agent never trained *)
NoPath == <<>>

(* create_agent: the record of a new agent *)
NewAgent == [knowledge_base_status |-> "empty", vector_store_path |-> NoPath]

Restrict(f, S) == [x \in S |-> f[x]]

(* create_agent: uuid4 gives an id never seen before; the record is saved  *)
(* and kept in memory.                                                     *)
CreateAgent ==
    \E agent_id \in AgentIds \ usedIds :
        /\ usedIds' = usedIds \cup {agent_id}
        /\ agentFiles' = (agent_id :> NewAgent) @@ agentFiles
        /\ agents' = (agent_id :> NewAgent) @@ agents
        /\ last' = [Idle EXCEPT !.op = "create_agent", !.outcome = "ok"]
        /\ UNCHANGED <<disk, vm, conversation_history, session, threads>>

(* train_agent_from_text(agent_id, text_content, source) *)
TrainAgent ==
    \E agent_id \in AgentIds :
      \E text \in {" ", AgentText(agent_id)}, source \in {AgentSource(agent_id)} :
        IF agent_id \notin DOMAIN agents
        THEN /\ last' = [Idle EXCEPT !.op = "train", !.ns = agent_id,
                                     !.outcome = "not_found"]
             /\ UNCHANGED <<disk, vm, agents, agentFiles, usedIds,
                            conversation_history, session, threads>>
        ELSE LET agent_vector_dir == AgentDir(agent_id)
                 made == makedirs(disk[agent_vector_dir])
                 agent_vector_manager == load_data(made)
             IN  /\ Len(agent_vector_manager.documents) + Len(ChunksOf(<<text>>)) <= MaxProgDocs
                 /\ \E env \in AddEnvironments :
                      LET r == add_texts(agent_vector_manager, made, <<text>>,
                                         <<SourceMeta(source)>>, env[1], env[2])
                          trained == [agents[agent_id] EXCEPT
                                         !.knowledge_base_status = "trained",
                                         !.vector_store_path = agent_vector_dir]
                      IN  /\ disk' = [disk EXCEPT ![agent_vector_dir] = r.content]
                          /\ agents' = IF r.raised THEN agents
                                       ELSE [agents EXCEPT ![agent_id] = trained]
                          /\ agentFiles' = IF r.raised THEN agentFiles
                                           ELSE (agent_id :> trained) @@ agentFiles
                          /\ last' = [Idle EXCEPT !.op = "train", !.ns = agent_id,
                                          !.outcome = r.outcome, !.raised = r.raised,
                                          !.embedCalls = r.embedCalls,
                                          !.chunks = ChunksOf(<<text>>),
                                          !.before = agent_vector_manager,
                                          !.diskBefore = disk[agent_vector_dir]]
                          /\ UNCHANGED <<vm, usedIds,
                                         conversation_history, session, threads>>

(* add_texts([text]) through one of the two managers of VECTOR_DIR *)
GlobalAdd(op, h, texts) ==
    \E text \in texts :
        /\ Len(vm[h].documents) + Len(ChunksOf(<<text>>)) <= MaxProgDocs
        /\ \E env \in AddEnvironments :
             LET r == add_texts(vm[h], disk[GlobalDir], <<text>>, <<>>, env[1], env[2])
             IN  /\ vm' = [vm EXCEPT ![h] = r.store]
                 /\ disk' = [disk EXCEPT ![GlobalDir] = r.content]
                 /\ last' = [Idle EXCEPT !.op = op, !.h = h, !.ns = "global",
                                 !.outcome = r.outcome, !.raised = r.raised,
                                 !.embedCalls = r.embedCalls,
                                 !.chunks = ChunksOf(<<text>>),
                                 !.before = vm[h], !.diskBefore = disk[GlobalDir]]
                 /\ UNCHANGED <<agents, agentFiles, usedIds,
                                conversation_history, session, threads>>

(* POST /upload without agent_id: vector_manager.add_texts([text_blob]) *)
Upload == GlobalAdd("upload", "app", UploadTexts)

(* AgentTools.add_knowledge(text): self.vector_manager.add_texts([text]) *)
AddKnowledge == GlobalAdd("add_knowledge", "tools", KnowledgeTexts)

(* sep.join(parts): a string is kept as the sequence of its pieces, the    *)
(* separator between every two parts.                                      *)
RECURSIVE Join(_, _)
Join(sep, parts) ==
    IF Len(parts) <= 1 THEN parts
    ELSE <<Head(parts), sep>> \o Join(sep, Tail(parts))

(* context: the page_content of the docs, joined by a blank line *)
context_of(docs) == Join("\n\n", [j \in 1..Len(docs) |-> docs[j].page_content])

(* Sources collected from the last doc to the first *)
sources_of_reversed(docs) == [j \in 1..Len(docs) |-> docs[Len(docs) + 1 - j].metadata]

(* sources: the metadata of the docs, in their order *)
sources_of(docs) == [j \in 1..Len(docs) |-> docs[j].metadata]

(* answer_question from the retrieved docs on: the context, the call of    *)
(* the generation service, the sources.                                    *)
Compose(ns, h, question, r, llm) ==
    /\ last' = [Idle EXCEPT !.op = "answer", !.h = h, !.ns = ns, !.query = question,
                    !.k = AnswerK, !.searchOutcome = r.outcome,
                    !.embedCalls = r.embedCalls, !.llmCalls = 1,
                    !.raised = (llm = "fail"),
                    !.outcome = IF llm = "fail" THEN "llm_raised" ELSE "answer",
                    !.results = IF llm = "fail" THEN <<>> ELSE r.results,
                    !.indices = IF llm = "fail" THEN <<>> ELSE r.indices,
                    !.context = context_of(r.results),
                    !.sources = IF llm = "fail" THEN <<>> ELSE sources_of(r.results)]
    /\ UNCHANGED <<disk, vm, agents, agentFiles, usedIds,
                   conversation_history, session, threads>>

(* answer_question(question) without agent_id *)
AnswerGlobal ==
    \E question \in ProgQueries, resp \in GatewayResponses, llm \in LlmResponses :
        Compose("global", "app", question,
                similarity_search(vm["app"], question, AnswerK, resp), llm)

(* A select step with one answer for every agent it cannot serve *)
select_store_conflated(files, dsk, agent_id) ==
    IF agent_id \notin DOMAIN files
    THEN "not_found"
    ELSE IF files[agent_id].vector_store_path = NoPath
            \/ dsk[files[agent_id].vector_store_path] = NoDir
    THEN "not_found"
    ELSE "selected"

(* The select step of answer_question with an agent_id: the agent must be  *)
(* among the agents read from AGENTS_DIR, have a vector_store_path, and    *)
(* the path must exist.                                                    *)
select_store(files, dsk, agent_id) ==
    IF agent_id \notin DOMAIN files
    THEN "not_found"
    ELSE IF files[agent_id].vector_store_path = NoPath
            \/ dsk[files[agent_id].vector_store_path] = NoDir
    THEN "not_trained"
    ELSE "selected"

(* answer_question(question, agent_id=agent_id): the agents are read from  *)
(* AGENTS_DIR by a new AgentTools.                                         *)
AnswerAgent ==
    \E agent_id \in AgentIds, question \in ProgQueries,
       resp \in GatewayResponses, llm \in LlmResponses :
        LET selected == select_store(agentFiles, disk, agent_id)
        IN  IF selected # "selected"
            THEN /\ last' = [Idle EXCEPT !.op = "answer", !.ns = agent_id,
                                         !.query = question, !.outcome = selected]
                 /\ UNCHANGED <<disk, vm, agents, agentFiles, usedIds,
                                conversation_history, session, threads>>
            ELSE LET vector_store_path == agentFiles[agent_id].vector_store_path
                 IN  Compose(agent_id, "-", question,
                             similarity_search(load_data(makedirs(disk[vector_store_path])),
                                               question, AnswerK, resp),
                             llm)

(* ComposeSpec: answer_question without agent_id over the stores of        *)
(* SearchSpec, with several questions.                                     *)
ComposeAnswer ==
    \E question \in Queries, resp \in GatewayResponses, llm \in LlmResponses :
        Compose("global", "app", question,
                similarity_search(vm["app"], question, AnswerK, resp), llm)

ComposeNext == SearchAddTexts \/ ComposeAnswer

ComposeSpec == Init /\ [][ComposeNext]_vars

(* _format_history *)

HistoryTurns == 8   \* the turns _format_history keeps
MaxHistory == 9     \* turns of the history a caller supplies

(* The (question, answer) tuples of a chat history *)
Turns == {<<"q1", "a1">>, <<"q2", "a2">>}

(* history[:n] *)
FirstN(s, n) == SubSeq(s, 1, Min(n, Len(s)))

(* history[-n:], n > 0 *)
LastN(s, n) == SubSeq(s, Len(s) - Min(n, Len(s)) + 1, Len(s))

(* The lines of _format_history: f"User: {q}" and f"Assistant: {a}" for    *)
(* every kept turn; a line is kept as <<label, text>>.                     *)
history_lines(history) ==
    Concat([i \in 1..Len(LastN(history, HistoryTurns)) |->
               << <<"User: ", LastN(history, HistoryTurns)[i][1]>>,
                  <<"Assistant: ", LastN(history, HistoryTurns)[i][2]>> >>])

(* _format_history(history): the lines joined by newlines *)
format_history(history) == Join(<<"\n">>, history_lines(history))

(* HistorySpec: _format_history applied to every history of up to          *)
(* MaxHistory turns.                                                       *)
HistoryInit ==
    /\ disk = [d \in Dirs |-> IF d = GlobalDir THEN NoFile ELSE NoDir]
    /\ vm = [h \in Handles |-> EmptyStore]
    /\ agents = <<>>
    /\ agentFiles = <<>>
    /\ usedIds = {}
    /\ conversation_history = <<>>
    /\ session = [b \in Browsers |-> <<>>]
    /\ threads = [t \in Threads |-> IdleThread]
    /\ \E history \in SeqsUpTo(Turns, 0, MaxHistory) :
          last = [Idle EXCEPT !.op = "history", !.history = history]

FormatHistory ==
    /\ last.op = "history"
    /\ last' = [last EXCEPT !.op = "format_history",
                            !.historyBlock = format_history(last.history)]
    /\ UNCHANGED <<disk, vm, agents, agentFiles, usedIds,
                   conversation_history, session, threads>>

HistoryNext == FormatHistory

HistorySpec == HistoryInit /\ [][HistoryNext]_vars

(* DELETE /agents/<agent_id> *)
DeleteAgent ==
    \E agent_id \in AgentIds :
        IF agent_id \notin DOMAIN agents
        THEN /\ last' = [Idle EXCEPT !.op = "delete_agent", !.ns = agent_id,
                                     !.outcome = "not_found"]
             /\ UNCHANGED <<disk, vm, agents, agentFiles, usedIds,
                            conversation_history, session, threads>>
        ELSE /\ agents' = Restrict(agents, DOMAIN agents \ {agent_id})
             /\ agentFiles' = Restrict(agentFiles, DOMAIN agentFiles \ {agent_id})
             /\ last' = [Idle EXCEPT !.op = "delete_agent", !.ns = agent_id,
                                     !.outcome = "ok"]
             /\ UNCHANGED <<disk, vm, usedIds,
                            conversation_history, session, threads>>

Next ==
    \/ CreateAgent
    \/ TrainAgent
    \/ Upload
    \/ AddKnowledge
    \/ AnswerGlobal
    \/ AnswerAgent
    \/ DeleteAgent

Spec == Init /\ [][Next]_vars

---------------------------------------------------------------------------
(* ConversationalAI and the /chat routes.  app.conversational_ai is one    *)
(* object of the process; its conversation_history is one list.            *)

MaxExchanges == 2   \* exchanges conversation_history holds in ChatSpec

(* The messages a browser sends: every browser has texts of its own, so    *)
(* that a message names the session it came from.                          *)
MessagesOf(b) ==
    IF b = "b1"
    THEN {"hello from b1", "list agents for b1", "create agent for b1",
          "create and list agents for b1"}
    ELSE {"hello from b2", "list agents for b2", "create agent for b2",
          "create and list agents for b2"}

(* _detect_tool_requests: the tools whose patterns the input matches *)
detect_tool_requests(user_input) ==
    CASE user_input \in {"list agents for b1", "list agents for b2"} -> <<"list_agents">>
      [] user_input \in {"create agent for b1", "create agent for b2"} -> <<"create_agent">>
      [] user_input \in {"create and list agents for b1",
                         "create and list agents for b2"} -> <<"create_agent", "list_agents">>
      [] OTHER -> <<>>

(* add_to_history's entry (the timestamp is left out) *)
Message(role, content) == [role |-> role, content |-> content]

(* _execute_tool_call: the dict of the tool, or the error dict its except  *)
(* clause builds; list_agents cannot fail, create_agent_from_conversation  *)
(* fails when the agent file cannot be written.                            *)
execute_tool_call(tool, toolResp) ==
    IF tool = "create_agent" /\ toolResp = "fail"
    THEN [success |-> FALSE]
    ELSE [success |-> TRUE]

(* _generate_tool_response *)
generate_tool_response(tool_results) ==
    IF tool_results = <<>>
    THEN "could not execute"
    ELSE IF \A i \in 1..Len(tool_results) : tool_results[i].success
    THEN "completed"
    ELSE IF \A i \in 1..Len(tool_results) : ~tool_results[i].success
    THEN "issues"
    ELSE "completed, issues"

(* _generate_conversational_response: the reply of the generation service, *)
(* or the apology of the except clause.                                    *)
generate_conversational_response(llm) ==
    IF llm = "fail" THEN "apology" ELSE "reply"

(* A process_user_input whose generation call is not guarded *)
process_user_input_unguarded(history, user_input, llm, toolResp) ==
    LET withUser == Append(history, Message("user", user_input))
        tool_calls == detect_tool_requests(user_input)
        tool_results == [i \in 1..Len(tool_calls) |->
                            execute_tool_call(tool_calls[i], toolResp)]
    IN  IF tool_calls = <<>>
        THEN IF llm = "fail"
             THEN [history |-> withUser, type |-> "-", content |-> "-",
                   raised |-> TRUE, llmCalls |-> 1]
             ELSE [history |-> Append(withUser, Message("assistant", "reply")),
                   type |-> "conversation", content |-> "reply",
                   raised |-> FALSE, llmCalls |-> 1]
        ELSE [history |-> Append(withUser,
                  Message("assistant", generate_tool_response(tool_results))),
              type |-> "tool_execution",
              content |-> generate_tool_response(tool_results),
              raised |-> FALSE, llmCalls |-> 0]

(* process_user_input(user_input, tools) on a conversation_history *)
process_user_input(history, user_input, llm, toolResp) ==
    LET withUser == Append(history, Message("user", user_input))
        tool_calls == detect_tool_requests(user_input)
        tool_results == [i \in 1..Len(tool_calls) |->
                            execute_tool_call(tool_calls[i], toolResp)]
    IN  IF tool_calls = <<>>
        THEN [history |-> Append(withUser,
                  Message("assistant", generate_conversational_response(llm))),
              type |-> "conversation",
              content |-> generate_conversational_response(llm),
              raised |-> FALSE, llmCalls |-> 1]
        ELSE [history |-> Append(withUser,
                  Message("assistant", generate_tool_response(tool_results))),
              type |-> "tool_execution",
              content |-> generate_tool_response(tool_results),
              raised |-> FALSE, llmCalls |-> 0]

(* POST /chat.  A create_agent tool that succeeds adds the agent           *)
(* create_agent_from_conversation builds (its record has no                *)
(* knowledge_base_status, which readers take as "empty").                  *)
Chat ==
    \E b \in Browsers :
      \E user_input \in MessagesOf(b) \cup {""},
         llm \in LlmResponses, toolResp \in {"ok", "fail"} :
        IF user_input = ""
        THEN /\ last' = [Idle EXCEPT !.op = "chat", !.browser = b,
                                     !.outcome = "no_message",
                                     !.convBefore = conversation_history]
             /\ UNCHANGED <<disk, vm, agents, agentFiles, usedIds,
                            conversation_history, session, threads>>
        ELSE LET r == process_user_input(conversation_history, user_input, llm, toolResp)
                 creates == /\ "create_agent" \in Range(detect_tool_requests(user_input))
                            /\ toolResp = "ok"
             IN  /\ Len(conversation_history) < 2 * MaxExchanges
                 /\ conversation_history' = r.history
                 /\ IF creates
                    THEN \E agent_id \in AgentIds \ usedIds :
                           /\ usedIds' = usedIds \cup {agent_id}
                           /\ agentFiles' = (agent_id :> NewAgent) @@ agentFiles
                           /\ agents' = (agent_id :> NewAgent) @@ agents
                    ELSE UNCHANGED <<agents, agentFiles, usedIds>>
                 /\ last' = [Idle EXCEPT !.op = "chat", !.browser = b,
                                 !.query = user_input, !.raised = r.raised,
                                 !.outcome = IF r.raised THEN "error" ELSE r.type,
                                 !.response = r.content, !.llmCalls = r.llmCalls,
                                 !.convBefore = conversation_history]
                 /\ UNCHANGED <<disk, vm, session, threads>>

(* GET /chat/history (and the GET /chat page): get_history() *)
GetChatHistory ==
    \E b \in Browsers :
        /\ last' = [Idle EXCEPT !.op = "chat_history", !.browser = b,
                                !.outcome = "ok", !.served = conversation_history,
                                !.convBefore = conversation_history]
        /\ UNCHANGED <<disk, vm, agents, agentFiles, usedIds,
                       conversation_history, session, threads>>

(* POST /chat/clear: clear_history() *)
ClearChatHistory ==
    \E b \in Browsers :
        /\ conversation_history' = <<>>
        /\ last' = [Idle EXCEPT !.op = "chat_clear", !.browser = b,
                                !.outcome = "ok",
                                !.convBefore = conversation_history]
        /\ UNCHANGED <<disk, vm, agents, agentFiles, usedIds, session, threads>>

ChatNext == Chat \/ GetChatHistory \/ ClearChatHistory

ChatSpec == Init /\ [][ChatNext]_vars

---------------------------------------------------------------------------
(* Two request threads in add_texts on the application's manager: the      *)
(* development server app.run starts handles every request on a thread of  *)
(* its own, and POST /upload without agent_id calls                        *)
(* vector_manager.add_texts([text_blob]) with no lock.  A thread runs the  *)
(* statements of add_texts one at a time; its position and its local       *)
(* variables chunks, new_embeddings and metas are in threads[t].           *)

MaxRaceDocs == 3   \* chunks the manager holds in RaceSpec

RaceTexts == {"x", "y", "xy"}

(* self.documents.extend(chunks) *)
extend_documents(store, chunks) ==
    [store EXCEPT !.documents = @ \o chunks]

(* An extend that puts the new embeddings in front *)
extend_doc_embeddings_front(store, vectors) ==
    [store EXCEPT !.doc_embeddings = vectors \o @]

(* self.doc_embeddings.extend(new_embeddings) *)
extend_doc_embeddings(store, vectors) ==
    [store EXCEPT !.doc_embeddings = @ \o vectors]

(* self.metadatas.extend(metas) *)
extend_metadatas(store, metas) ==
    [store EXCEPT !.metadatas = @ \o metas]

(* The chunks a thread has embedded and not yet appended to documents *)
Pending(t) == IF threads[t].pc = "embedded" THEN Len(threads[t].chunks) ELSE 0

RECURSIVE PendingOf(_)
PendingOf(S) ==
    IF S = {} THEN 0
    ELSE LET t == CHOOSE u \in S : TRUE IN Pending(t) + PendingOf(S \ {t})

InCall(t) == threads[t].pc # "idle"

(* The split and the embed_documents call; a failing provider raises and   *)
(* the call is over.                                                       *)
RaceEmbed ==
    \E t \in Threads, text \in RaceTexts, resp \in GatewayResponses :
        LET chunks == ChunksOf(<<text>>)
            metas == MetasOf(<<text>>, <<>>)
            emb == embed_documents(chunks, resp)
            others == {u \in Threads \ {t} : InCall(u)}
        IN  /\ threads[t].pc = "idle"
            /\ Len(vm["app"].documents) + PendingOf(Threads \ {t}) + Len(chunks)
                  <= MaxRaceDocs
            /\ threads' =
                 [u \in Threads |->
                    IF u = t
                    THEN IF emb.raised
                         THEN [threads[t] EXCEPT !.overlapped = @ \/ others # {}]
                         ELSE [threads[t] EXCEPT !.pc = "embedded", !.chunks = chunks,
                                                 !.vectors = emb.vectors, !.metas = metas,
                                                 !.overlapped = @ \/ others # {}]
                    ELSE IF u \in others
                    THEN [threads[u] EXCEPT !.overlapped = TRUE]
                    ELSE threads[u]]
            /\ UNCHANGED <<disk, vm, agents, agentFiles, usedIds,
                           conversation_history, session, last>>

RaceExtendDocuments ==
    \E t \in Threads :
        /\ threads[t].pc = "embedded"
        /\ vm' = [vm EXCEPT !["app"] = extend_documents(@, threads[t].chunks)]
        /\ threads' = [threads EXCEPT ![t].pc = "documents"]
        /\ UNCHANGED <<disk, agents, agentFiles, usedIds,
                       conversation_history, session, last>>

RaceExtendEmbeddings ==
    \E t \in Threads :
        /\ threads[t].pc = "documents"
        /\ vm' = [vm EXCEPT !["app"] = extend_doc_embeddings(@, threads[t].vectors)]
        /\ threads' = [threads EXCEPT ![t].pc = "embeddings"]
        /\ UNCHANGED <<disk, agents, agentFiles, usedIds,
                       conversation_history, session, last>>

RaceExtendMetadatas ==
    \E t \in Threads :
        /\ threads[t].pc = "embeddings"
        /\ vm' = [vm EXCEPT !["app"] = extend_metadatas(@, threads[t].metas)]
        /\ threads' = [threads EXCEPT ![t].pc = "metadatas"]
        /\ UNCHANGED <<disk, agents, agentFiles, usedIds,
                       conversation_history, session, last>>

(* self._save_data(): the snapshot of the lists as they are now, and the   *)
(* return (or the raise) of add_texts.                                     *)
RaceSave ==
    \E t \in Threads, saveResp \in SaveResponses :
        /\ threads[t].pc = "metadatas"
        /\ disk' = [disk EXCEPT ![GlobalDir] = WriteSnapshot(vm["app"], @, saveResp)]
        /\ threads' = [threads EXCEPT ![t] =
                          [IdleThread EXCEPT !.overlapped = threads[t].overlapped]]
        /\ UNCHANGED <<vm, agents, agentFiles, usedIds,
                       conversation_history, session, last>>

RaceNext ==
    \/ RaceEmbed
    \/ RaceExtendDocuments
    \/ RaceExtendEmbeddings
    \/ RaceExtendMetadatas
    \/ RaceSave

RaceSpec == Init /\ [][RaceNext]_vars

---------------------------------------------------------------------------
(* Two request threads in train_agent_from_text.  Every call builds a      *)
(* VectorStoreManager of its own over the agent's directory (no manager is *)
(* kept per agent), loads the snapshot into it, adds to it and writes the  *)
(* snapshot from it.  The manager of a call is threads[t].store.           *)

TrainTexts == {"p", "q", "x"}

(* The lookup, makedirs and VectorStoreManager(persist_directory=...) *)
TrainOpen ==
    \E t \in Threads, agent_id \in AgentIds, text \in TrainTexts :
        /\ threads[t].pc = "idle"
        /\ IF agent_id \notin DOMAIN agents
           THEN /\ threads' = [threads EXCEPT ![t] =
                                 [IdleThread EXCEPT !.pc = "done", !.agent = agent_id,
                                                    !.text = text,
                                                    !.outcome = "not_found"]]
                /\ UNCHANGED disk
           ELSE LET made == makedirs(disk[AgentDir(agent_id)])
                IN  /\ disk' = [disk EXCEPT ![AgentDir(agent_id)] = made]
                    /\ threads' = [threads EXCEPT ![t] =
                                     [IdleThread EXCEPT !.pc = "opened",
                                                        !.agent = agent_id,
                                                        !.text = text,
                                                        !.chunks = ChunksOf(<<text>>),
                                                        !.store = load_data(made)]]
        /\ UNCHANGED <<vm, agents, agentFiles, usedIds,
                       conversation_history, session, last>>

(* agent_vector_manager.add_texts(...) and the update of the agent record; *)
(* an agent deleted meanwhile makes the update raise.                      *)
TrainAddTexts ==
    \E t \in Threads, env \in AddEnvironments :
        LET agent_id == threads[t].agent
            dir == AgentDir(agent_id)
            r == add_texts(threads[t].store, disk[dir], <<threads[t].text>>,
                           <<SourceMeta("user_input")>>, env[1], env[2])
            trained == [agents[agent_id] EXCEPT
                           !.knowledge_base_status = "trained",
                           !.vector_store_path = dir]
        IN  /\ threads[t].pc = "opened"
            /\ disk' = [disk EXCEPT ![dir] = r.content]
            /\ agents' = IF r.raised THEN agents
                         ELSE [agents EXCEPT ![agent_id] = trained]
            /\ agentFiles' = IF r.raised THEN agentFiles
                             ELSE (agent_id :> trained) @@ agentFiles
            /\ threads' = [threads EXCEPT ![t].pc = "done", ![t].store = r.store,
                              ![t].outcome = IF r.raised THEN "error" ELSE "ok"]
            /\ UNCHANGED <<vm, usedIds, conversation_history, session, last>>

TrainNext == CreateAgent \/ TrainOpen \/ TrainAddTexts

TrainSpec == Init /\ [][TrainNext]_vars

---------------------------------------------------------------------------
(* POST /ask and POST /clear: the question-and-answer history of a browser *)
(* session is session[b], a list of <<question, answer>> pairs.            *)

ReturnArity == 3    \* values answer_question returns
AskTargets == 2     \* names the assignment in ask() unpacks them into

(* name_1, ..., name_n = values: a ValueError unless the numbers agree *)
unpack_raises(values, targets) == values # targets

(* POST /ask *)
Ask ==
    \E b \in Browsers, question \in Queries \cup {""},
       resp \in GatewayResponses, llm \in LlmResponses :
        IF question = ""
        THEN /\ last' = [Idle EXCEPT !.op = "ask", !.browser = b,
                                     !.outcome = "no_question",
                                     !.sessionBefore = session[b]]
             /\ UNCHANGED <<disk, vm, agents, agentFiles, usedIds,
                            conversation_history, session, threads>>
        ELSE LET history == session[b]
                 r == similarity_search(vm["app"], question, AnswerK, resp)
                 raised == llm = "fail" \/ unpack_raises(ReturnArity, AskTargets)
             IN  /\ Len(history) < MaxHistory
                 /\ session' = IF raised THEN session
                               ELSE [session EXCEPT ![b] =
                                        Append(history, <<question, "answer">>)]
                 /\ last' = [Idle EXCEPT !.op = "ask", !.browser = b, !.h = "app",
                                 !.query = question, !.k = AnswerK,
                                 !.searchOutcome = r.outcome,
                                 !.embedCalls = r.embedCalls, !.llmCalls = 1,
                                 !.response = IF llm = "fail" THEN "-" ELSE "answer",
                                 !.sources = IF raised THEN <<>> ELSE sources_of(r.results),
                                 !.raised = raised,
                                 !.outcome = IF raised THEN "error" ELSE "ok",
                                 !.sessionBefore = history]
                 /\ UNCHANGED <<disk, vm, agents, agentFiles, usedIds,
                                conversation_history, threads>>

(* POST /clear *)
Clear ==
    \E b \in Browsers :
        /\ session' = [session EXCEPT ![b] = <<>>]
        /\ last' = [Idle EXCEPT !.op = "clear", !.browser = b, !.outcome = "ok",
                                !.sessionBefore = session[b]]
        /\ UNCHANGED <<disk, vm, agents, agentFiles, usedIds,
                       conversation_history, threads>>

AskNext == SearchAddTexts \/ Ask \/ Clear

AskSpec == Init /\ [][AskNext]_vars

---------------------------------------------------------------------------
(* The routes of one agent: GET /agents/<id>, POST /chat-agent/<id>,       *)
(* training and DELETE /agents/<id>.                                       *)

(* A lookup that finds every id *)
get_agent_status_unchecked(ags, store, agent_id) ==
    [success |-> TRUE, knowledge_items |-> Len(store.documents)]

(* get_agent_status(agent_id) of an AgentTools whose agents are ags and    *)
(* whose vector_manager is store                                           *)
get_agent_status(ags, store, agent_id) ==
    IF agent_id \notin DOMAIN ags
    THEN [success |-> FALSE, knowledge_items |-> 0]
    ELSE [success |-> TRUE, knowledge_items |-> Len(store.documents)]

(* GET /agents/<agent_id> *)
GetAgent ==
    \E agent_id \in AgentIds :
        LET agent_result == get_agent_status(agents, vm["tools"], agent_id)
        IN  /\ last' = [Idle EXCEPT !.op = "status", !.ns = agent_id,
                            !.outcome = IF agent_result.success THEN "ok"
                                        ELSE "not_found",
                            !.knowledge_items = agent_result.knowledge_items]
            /\ UNCHANGED <<disk, vm, agents, agentFiles, usedIds,
                           conversation_history, session, threads>>

(* POST /chat-agent/<agent_id> with a question: the lookup, then           *)
(* answer_question(question, agent_id=agent_id), which builds a manager    *)
(* over the agent's vector_store_path, searches it and calls the           *)
(* generation service.                                                     *)
ChatAgent ==
    \E agent_id \in AgentIds, question \in ProgQueries,
       resp \in GatewayResponses, llm \in LlmResponses :
        LET agent_result == get_agent_status(agents, vm["tools"], agent_id)
            selected == select_store(agentFiles, disk, agent_id)
        IN  IF ~agent_result.success
            THEN /\ last' = [Idle EXCEPT !.op = "chat_agent", !.ns = agent_id,
                                         !.query = question, !.outcome = "not_found"]
                 /\ UNCHANGED <<disk, vm, agents, agentFiles, usedIds,
                                conversation_history, session, threads>>
            ELSE IF selected # "selected"
            THEN /\ last' = [Idle EXCEPT !.op = "chat_agent", !.ns = agent_id,
                                         !.query = question,
                                         !.outcome = "answer",
                                         !.searchOutcome = selected]
                 /\ UNCHANGED <<disk, vm, agents, agentFiles, usedIds,
                                conversation_history, session, threads>>
            ELSE LET vector_store_path == agentFiles[agent_id].vector_store_path
                     opened == init_manager(disk[vector_store_path])
                     r == similarity_search(opened.store, question, AnswerK, resp)
                 IN  /\ disk' = [disk EXCEPT ![vector_store_path] = opened.content]
                     /\ last' = [Idle EXCEPT !.op = "chat_agent", !.ns = agent_id,
                                     !.query = question, !.k = AnswerK,
                                     !.searchOutcome = r.outcome,
                                     !.embedCalls = r.embedCalls, !.llmCalls = 1,
                                     !.raised = (llm = "fail"),
                                     !.outcome = IF llm = "fail" THEN "error"
                                                 ELSE "answer",
                                     !.results = IF llm = "fail" THEN <<>> ELSE r.results,
                                     !.sources = IF llm = "fail" THEN <<>>
                                                 ELSE sources_of(r.results)]
                     /\ UNCHANGED <<vm, agents, agentFiles, usedIds,
                                    conversation_history, session, threads>>

AgentNext ==
    \/ CreateAgent
    \/ TrainAgent
    \/ Upload
    \/ AnswerGlobal
    \/ GetAgent
    \/ ChatAgent
    \/ DeleteAgent

AgentSpec == Init /\ [][AgentNext]_vars

---------------------------------------------------------------------------
(* Properties of one VectorStoreManager *)

Parity(store) ==
    /\ Len(store.documents) = Len(store.doc_embeddings)
    /\ Len(store.doc_embeddings) = Len(store.metadatas)

AddFailedOnEmbedding == last.op = "add" /\ last.outcome = "embed_failed"

AddSucceeded == last.op = "add" /\ last.outcome = "ok"

SearchSucceeded == last.op = "search" /\ last.outcome = "ok"

(* C1: after every construction, add_texts (successful or failed) and      *)
(* similarity_search the three lists of the manager have the same length,  *)
(* and after an add_texts whose embedding call failed they are the lists   *)
(* of before the call.                                                     *)
C1_ParityInvariant ==
    /\ \A h \in Handles : Parity(vm[h])
    /\ AddFailedOnEmbedding => vm[last.h] = last.before

C1_Witness ==
    /\ AddFailedOnEmbedding
    /\ Len(vm[last.h].documents) >= 1
    /\ Len(last.chunks) >= 2

(* C2: an add_texts whose embedding call raises raises to its caller,      *)
(* appends nothing to documents, doc_embeddings or metadatas, and leaves   *)
(* vector_store.pkl as it was.                                             *)
C2_AtomicOnEmbeddingFailure ==
    AddFailedOnEmbedding =>
        /\ last.raised
        /\ vm[last.h].documents = last.before.documents
        /\ vm[last.h].doc_embeddings = last.before.doc_embeddings
        /\ vm[last.h].metadatas = last.before.metadatas
        /\ disk[GlobalDir] = last.diskBefore

C2_Witness ==
    /\ AddFailedOnEmbedding
    /\ last.raised
    /\ last.diskBefore.kind = "pickle"
    /\ vm[last.h].documents # <<>>

(* C6: right after a successful add_texts, a new VectorStoreManager on     *)
(* the same directory loads documents, doc_embeddings and metadatas equal, *)
(* element for element, to those of the instance that wrote the snapshot.  *)
C6_RoundTrip ==
    AddSucceeded =>
        LET fresh == load_data(makedirs(disk[GlobalDir]))
            writer == vm[last.h]
        IN  /\ Len(fresh.documents) = Len(writer.documents)
            /\ Len(fresh.doc_embeddings) = Len(writer.doc_embeddings)
            /\ Len(fresh.metadatas) = Len(writer.metadatas)
            /\ \A i \in 1..Len(writer.documents) :
                  /\ fresh.documents[i] = writer.documents[i]
                  /\ fresh.doc_embeddings[i] = writer.doc_embeddings[i]
                  /\ fresh.metadatas[i] = writer.metadatas[i]

C6_Witness ==
    /\ AddSucceeded
    /\ Len(vm[last.h].documents) >= 2
    /\ \E i \in 1..Len(vm[last.h].metadatas) : vm[last.h].metadatas[i] # EmptyMeta

(* The similarity of stored chunk i to the query of the last search *)
SimOf(i) == cosine_similarity(EmbeddingOf(last.query), vm[last.h].doc_embeddings[i])

(* The rank (position in the results) of stored chunk i, 0 when left out *)
RankOf(i) ==
    IF \E j \in 1..Len(last.indices) : last.indices[j] = i
    THEN CHOOSE j \in 1..Len(last.indices) : last.indices[j] = i
    ELSE 0

StoredCount == Len(vm[last.h].documents)

(* C7: of two stored chunks with equal cosine similarity to the query the  *)
(* one inserted earlier is ranked before the other, and is the one kept    *)
(* when k cuts between them.                                               *)
C7_TiesEarlierFirst ==
    SearchSucceeded =>
        \A i, j \in 1..StoredCount :
            (i < j /\ SimEqual(SimOf(i), SimOf(j)) /\ RankOf(j) # 0) =>
                (RankOf(i) # 0 /\ RankOf(i) < RankOf(j))

(* C8: a search whose query embedding succeeds returns its results in      *)
(* non-increasing order of cosine similarity, leaves out no chunk scoring  *)
(* strictly higher than a returned one, and for documents x, y, z with     *)
(* embeddings [1,0], [0,1], [1,1] and query embedding [1,0] returns        *)
(* x, z, y.                                                                *)
C8_Ranking ==
    SearchSucceeded =>
        /\ Len(last.results) = Len(last.indices)
        /\ \A a \in 1..Len(last.results) :
              last.results[a].page_content = vm[last.h].documents[last.indices[a]]
        /\ \A a, b \in 1..Len(last.indices) :
              a < b => ~SimGreater(SimOf(last.indices[b]), SimOf(last.indices[a]))
        /\ \A i \in 1..StoredCount :
              RankOf(i) = 0 =>
                  \A a \in 1..Len(last.indices) : ~SimGreater(SimOf(i), SimOf(last.indices[a]))
        /\ ( /\ vm[last.h].documents = <<"x", "y", "z">>
             /\ vm[last.h].doc_embeddings = << <<1, 0>>, <<0, 1>>, <<1, 1>> >>
             /\ EmbeddingOf(last.query) = <<1, 0>>
             /\ last.k >= 3 )
           => [a \in 1..Len(last.results) |-> last.results[a].page_content]
                  = <<"x", "z", "y">>

C8_Witness ==
    /\ SearchSucceeded
    /\ vm[last.h].documents = <<"x", "y", "z">>
    /\ vm[last.h].doc_embeddings = << <<1, 0>>, <<0, 1>>, <<1, 1>> >>
    /\ EmbeddingOf(last.query) = <<1, 0>>
    /\ last.k >= 3
    /\ Len(last.results) = 3

(* C9: for positive k and a store of n >= 1 chunks, a search whose query   *)
(* embedding succeeds returns exactly min(k, n) results.                   *)
C9_KSaturation ==
    (SearchSucceeded /\ last.k > 0 /\ StoredCount >= 1) =>
        /\ Len(last.results) = Min(last.k, StoredCount)
        /\ Len(last.results) <= last.k

C9_Witness ==
    /\ SearchSucceeded
    /\ StoredCount = 2
    /\ last.k = 5
    /\ Len(last.results) = 2

(* C10: similarity_search on a manager without documents returns the empty *)
(* list and does not call the embedding provider.                          *)
C10_EmptyShortCircuit ==
    (last.op = "search" /\ vm[last.h].documents = <<>>) =>
        /\ last.results = <<>>
        /\ last.embedCalls = 0

C10_Witness ==
    /\ last.op = "search"
    /\ vm[last.h].documents = <<>>
    /\ disk[GlobalDir].kind = "corrupt"

---------------------------------------------------------------------------
(* Properties of the program *)

(* The namespace keys: None (the global namespace) or an agent id *)
Namespaces == {"global"} \cup AgentIds

(* The persist directory the program uses for a namespace key *)
DirOf(ns) == IF ns = "global" THEN GlobalDir ELSE AgentDir(ns)

(* The chunks and the metadata the program's inputs write for a namespace *)
ChunksWrittenFor(ns) ==
    IF ns = "global"
    THEN UNION {Range(split_text(t)) : t \in UploadTexts \cup KnowledgeTexts}
    ELSE Range(split_text(AgentText(ns)))

MetasWrittenFor(ns) ==
    IF ns = "global" THEN {EmptyMeta} ELSE {SourceMeta(AgentSource(ns))}

DocsOn(content) == IF content.kind = "pickle" THEN content.documents ELSE <<>>

Answered == last.op = "answer" /\ last.outcome = "answer"

Wrote == last.op \in {"upload", "add_knowledge", "train"} /\ last.outcome = "ok"

(* C3: the documents and the sources of an answer for a namespace (an      *)
(* agent, or the global namespace) are chunks and metadata written for     *)
(* that namespace, never those written for another agent or, for an agent, *)
(* for the global namespace.                                               *)
C3_NamespaceIsolation ==
    Answered =>
        /\ Len(last.sources) = Len(last.results)
        /\ \A j \in 1..Len(last.results) :
              /\ last.results[j].page_content \in ChunksWrittenFor(last.ns)
              /\ last.results[j].metadata \in MetasWrittenFor(last.ns)
              /\ last.sources[j] \in MetasWrittenFor(last.ns)

C3_Witness ==
    /\ Answered
    /\ last.ns = "a2"
    /\ last.results # <<>>
    /\ DocsOn(disk[<<"vector_store", "agent_", "a1">>]) # <<>>
    /\ DocsOn(disk[GlobalDir]) # <<>>

(* C4: the handles of one namespace share one store: every chunk that an   *)
(* add_texts through any of them has put into the namespace's snapshot is  *)
(* returned by the search of an answer for that namespace (k = 5 exceeds   *)
(* the number of chunks a store holds here).                               *)
C4_HandlesShareStore ==
    (Answered /\ last.searchOutcome \in {"ok", "empty"}) =>
        \A c \in Range(DocsOn(disk[DirOf(last.ns)])) :
            \E j \in 1..Len(last.results) : last.results[j].page_content = c

(* C5: a successful add_texts through any manager of a directory leaves in *)
(* the snapshot every chunk the snapshot held before, unchanged and at its *)
(* position.                                                               *)
C5_SnapshotOnlyGrows ==
    (Wrote /\ last.diskBefore.kind = "pickle") =>
        /\ disk[DirOf(last.ns)].kind = "pickle"
        /\ IsPrefix(last.diskBefore.documents, disk[DirOf(last.ns)].documents)
        /\ IsPrefix(last.diskBefore.embeddings, disk[DirOf(last.ns)].embeddings)
        /\ IsPrefix(last.diskBefore.metadatas, disk[DirOf(last.ns)].metadatas)

(* C11: an answer_question whose query embedding call failed gives its     *)
(* caller an error outcome, and does not invoke the generation service on  *)
(* the empty context.                                                      *)
C11_QueryFailureIsError ==
    (last.op = "answer" /\ last.searchOutcome = "embed_failed") =>
        /\ last.outcome # "answer"
        /\ last.llmCalls = 0

(* C12: no call of answer_question raises to its caller, whatever the      *)
(* generation service does: it returns a complete result or an error       *)
(* value.                                                                  *)
C12_ComposerNeverRaises ==
    last.op = "answer" => ~last.raised

(* C13: after DELETE /agents/<agent_id> has deleted an agent, the agent is *)
(* gone from memory and from AGENTS_DIR, and a VectorStoreManager opened   *)
(* over the agent's directory holds no document.                           *)
C13_DeleteRemovesSnapshot ==
    (last.op = "delete_agent" /\ last.outcome = "ok") =>
        /\ last.ns \notin DOMAIN agents
        /\ last.ns \notin DOMAIN agentFiles
        /\ load_data(makedirs(disk[AgentDir(last.ns)])) = EmptyStore

(* C14: constructing a VectorStoreManager over a directory whose snapshot  *)
(* is missing or cannot be read by pickle raises nothing and gives a       *)
(* manager whose three lists are empty.                                    *)
C14_LoadNeverFails ==
    (last.op = "construct" /\ last.diskBefore.kind # "pickle") =>
        /\ ~last.raised
        /\ vm[last.h].documents = <<>>
        /\ vm[last.h].doc_embeddings = <<>>
        /\ vm[last.h].metadatas = <<>>

C14_Witness ==
    /\ last.op = "construct"
    /\ last.diskBefore = Corrupt
    /\ last.before.documents # <<>>
    /\ vm[last.h] = EmptyStore

(* C15: all embeddings of a store have one length, and an add_texts whose  *)
(* new embeddings have another length than those already in the store      *)
(* fails and leaves the store as it was: after every add_texts the store's *)
(* embeddings have the length they had before it.                          *)
C15_DimensionConsistency ==
    LET E == vm["app"].doc_embeddings
    IN  /\ \A i, j \in 1..Len(E) : Len(E[i]) = Len(E[j])
        /\ (last.op = "add" /\ last.before.doc_embeddings # <<>>) =>
              \A i \in 1..Len(E) : Len(E[i]) = Len(last.before.doc_embeddings[1])

(* C16: answer_question for an agent whose record exists but that has no   *)
(* vector_store_path, or whose path does not exist, returns the "not       *)
(* trained" outcome with empty sources; for an unknown agent_id it returns *)
(* the "not found" outcome; neither calls the embedding provider or the    *)
(* generation service.                                                     *)
C16_SelectDistinguishes ==
    (last.op = "answer" /\ last.ns \in AgentIds) =>
        /\ last.ns \notin DOMAIN agentFiles =>
              /\ last.outcome = "not_found"
              /\ last.sources = <<>>
              /\ last.embedCalls = 0
              /\ last.llmCalls = 0
        /\ ( /\ last.ns \in DOMAIN agentFiles
             /\ \/ agentFiles[last.ns].vector_store_path = NoPath
                \/ disk[agentFiles[last.ns].vector_store_path] = NoDir ) =>
              /\ last.outcome = "not_trained"
              /\ last.outcome # "not_found"
              /\ last.sources = <<>>
              /\ last.embedCalls = 0
              /\ last.llmCalls = 0

C16_Witness ==
    /\ last.op = "answer"
    /\ last.outcome = "not_trained"
    /\ last.ns \in DOMAIN agentFiles
    /\ disk[AgentDir(last.ns)] = NoFile
    /\ \E other \in AgentIds : other \notin DOMAIN agentFiles

(* C17: in every successful answer_question result the sources are as many *)
(* as the retrieved chunks, sources[i] is the metadata of the i-th         *)
(* retrieved chunk (the chunk the ranking put i-th), and the context is    *)
(* the texts of the chunks in that order, a blank line between them.       *)
C17_ProvenanceOrder ==
    Answered =>
        /\ Len(last.sources) = Len(last.results)
        /\ Len(last.indices) = Len(last.results)
        /\ \A i \in 1..Len(last.results) :
              /\ last.sources[i] = last.results[i].metadata
              /\ last.sources[i] = vm["app"].metadatas[last.indices[i]]
              /\ last.results[i].page_content = vm["app"].documents[last.indices[i]]
              /\ last.context[2 * i - 1] = last.results[i].page_content
        /\ Len(last.context) = IF last.results = <<>> THEN 0 ELSE 2 * Len(last.results) - 1
        /\ \A i \in 1..(Len(last.results) - 1) : last.context[2 * i] = "\n\n"

C17_Witness ==
    /\ Answered
    /\ Len(last.results) = 3
    /\ last.indices[1] > last.indices[2]
    /\ last.sources[1] # last.sources[2]
    /\ last.results[1].page_content # last.results[3].page_content

(* C18: for a history of h turns the history block holds the last          *)
(* min(8, h) turns and no other, in their order, each as a "User: " line   *)
(* followed by an "Assistant: " line, the lines separated by newlines.     *)
C18_BoundedHistory ==
    last.op = "format_history" =>
        LET h == Len(last.history)
            n == Min(HistoryTurns, h)
            block == last.historyBlock
        IN  /\ Len(block) = IF n = 0 THEN 0 ELSE 4 * n - 1
            /\ \A i \in 1..n :
                  /\ block[4 * i - 3] = <<"User: ", last.history[h - n + i][1]>>
                  /\ block[4 * i - 2] = <<"\n">>
                  /\ block[4 * i - 1] = <<"Assistant: ", last.history[h - n + i][2]>>
            /\ \A j \in 1..Len(block) : j % 2 = 0 => block[j] = <<"\n">>

C18_Witness ==
    /\ last.op = "format_history"
    /\ Len(last.history) = HistoryTurns + 1
    /\ last.history[1] # last.history[HistoryTurns + 1]
    /\ last.history[1] # last.history[2]
    /\ Len(last.historyBlock) = 4 * HistoryTurns - 1

(* The number of chunks the texts before texts[i] of the last add_texts    *)
(* gave                                                                    *)
ChunksBefore(i) ==
    SumTo([t \in 1..(i - 1) |-> Len(split_text(last.texts[t]))], i - 1)

(* C19: a successful add_texts(texts, metadatas) leaves the chunks the     *)
(* store held where they were and appends after them the chunks of         *)
(* texts[0], then those of texts[1], ..., each chunk in the order the      *)
(* splitter gave it; the metadata at the position of an appended chunk is  *)
(* the metadata given for its text, the empty dict when none was given.    *)
C19_OrderAndPairing ==
    AddSucceeded =>
        LET store == vm[last.h]
            b == Len(last.before.documents)
            n == Len(last.texts)
        IN  /\ Len(store.documents) = b + ChunksBefore(n + 1)
            /\ Len(store.metadatas) = Len(store.documents)
            /\ SubSeq(store.documents, 1, b) = last.before.documents
            /\ SubSeq(store.metadatas, 1, b) = last.before.metadatas
            /\ \A i \in 1..n :
                  \A c \in 1..Len(split_text(last.texts[i])) :
                      /\ store.documents[b + ChunksBefore(i) + c] = split_text(last.texts[i])[c]
                      /\ store.metadatas[b + ChunksBefore(i) + c] =
                            IF i <= Len(last.metadatas) THEN last.metadatas[i] ELSE EmptyMeta

C19_Witness ==
    /\ AddSucceeded
    /\ last.before.documents # <<>>
    /\ Len(last.texts) = 2
    /\ Len(last.metadatas) = 2
    /\ last.metadatas[1] # last.metadatas[2]
    /\ Len(last.chunks) = 2
    /\ vm[last.h].metadatas[Len(vm[last.h].metadatas)] = last.metadatas[2]

(* C20: an add_texts whose texts give no chunk returns normally, does not  *)
(* call the embedding provider, leaves the three lists as they were and    *)
(* does not write the snapshot, whatever the provider and the file system  *)
(* would have done.                                                        *)
C20_ZeroChunkNoOp ==
    (last.op = "add" /\ last.chunks = <<>>) =>
        /\ ~last.raised
        /\ last.outcome = "noop"
        /\ last.embedCalls = 0
        /\ vm[last.h] = last.before
        /\ disk[GlobalDir] = last.diskBefore

C20_Witness ==
    /\ last.op = "add"
    /\ last.chunks = <<>>
    /\ last.outcome = "noop"
    /\ last.before.documents # <<>>
    /\ last.diskBefore = Corrupt

---------------------------------------------------------------------------
(* Properties of the conversation *)

(* The user messages of a history that a browser did not send *)
ForeignMessages(history, b) ==
    {i \in 1..Len(history) :
        history[i].role = "user" /\ history[i].content \notin MessagesOf(b)}

(* C21: the conversation history served to a session holds no message      *)
(* another session sent to POST /chat, and clearing the history in one     *)
(* session removes no message of another session.                          *)
C21_HistoryPerSession ==
    /\ last.op = "chat_history" => ForeignMessages(last.served, last.browser) = {}
    /\ last.op = "chat_clear" =>
          \A i \in ForeignMessages(last.convBefore, last.browser) :
              \E j \in 1..Len(conversation_history) :
                  conversation_history[j] = last.convBefore[i]

(* C27: conversation_history has even length and alternates user,          *)
(* assistant; a process_user_input appends exactly the user message and    *)
(* one assistant message and returns, also when the generation service or  *)
(* a tool fails.                                                           *)
C27_Alternation ==
    /\ Len(conversation_history) % 2 = 0
    /\ \A i \in 1..Len(conversation_history) :
          conversation_history[i].role = IF i % 2 = 1 THEN "user" ELSE "assistant"
    /\ (last.op = "chat" /\ last.outcome # "no_message") =>
          /\ ~last.raised
          /\ conversation_history =
                last.convBefore \o <<Message("user", last.query),
                                     Message("assistant", last.response)>>

(* A second exchange whose generation or tool call failed *)
C27_Witness ==
    /\ last.op = "chat"
    /\ last.convBefore # <<>>
    /\ last.response \in {"apology", "issues"}
    /\ Len(conversation_history) = Len(last.convBefore) + 2

---------------------------------------------------------------------------
(* Properties of concurrent calls *)

(* Position i of the three lists belongs to one chunk *)
Aligned(store) ==
    /\ Parity(store)
    /\ \A i \in 1..Len(store.documents) :
          /\ store.doc_embeddings[i] = EmbeddingOf(store.documents[i])
          /\ store.metadatas[i] = EmptyMeta

SnapshotAligned(content) ==
    content.kind = "pickle" =>
        Aligned([documents |-> content.documents,
                 doc_embeddings |-> content.embeddings,
                 metadatas |-> content.metadatas])

(* C22: add_texts calls that never overlapped leave the lists and the      *)
(* snapshot aligned between calls; two calls that interleave their         *)
(* appends and the snapshot write reach a state where they are not.        *)
C22_SequentialCallsAlign ==
    (\A t \in Threads : ~InCall(t) /\ ~threads[t].overlapped) =>
        /\ Aligned(vm["app"])
        /\ SnapshotAligned(disk[GlobalDir])

(* Both calls have returned; the lists have equal lengths, a position      *)
(* holds the text of one chunk with the embedding of another, and the      *)
(* snapshot holds the same.                                                *)
C22_Witness ==
    /\ \A t \in Threads : ~InCall(t) /\ threads[t].overlapped
    /\ Parity(vm["app"])
    /\ ~Aligned(vm["app"])
    /\ disk[GlobalDir] = save_data(vm["app"])

(* The training calls that have returned success for an agent *)
Trained(agent_id) ==
    {t \in Threads : /\ threads[t].pc = "done"
                     /\ threads[t].outcome = "ok"
                     /\ threads[t].agent = agent_id}

(* C23: when two train_agent_from_text calls for one agent have both       *)
(* returned success, the chunks of both are in the agent's snapshot.       *)
C23_BothWritesKept ==
    \A agent_id \in AgentIds :
        Trained(agent_id) = Threads =>
            \A t \in Threads :
                Range(threads[t].chunks) \subseteq Range(DocsOn(disk[AgentDir(agent_id)]))

---------------------------------------------------------------------------
(* Properties of memory against disk, and of the agent records *)

(* C26: after every add_texts of a manager, returned or raised, the        *)
(* manager's lists are what a load of its snapshot gives.                  *)
C26_MemoryEqualsSnapshot ==
    last.op = "add" => vm["app"] = load_data(disk[GlobalDir])

(* C28: the store at the vector_store_path of an agent whose               *)
(* knowledge_base_status is 'trained' holds at least one chunk.            *)
C28_TrainedHasChunks ==
    \A agent_id \in DOMAIN agents :
        agents[agent_id].knowledge_base_status = "trained" =>
            /\ agents[agent_id].vector_store_path # NoPath
            /\ DocsOn(disk[agents[agent_id].vector_store_path]) # <<>>

(* C25: a POST /ask with a question, whose retrieval and generation        *)
(* succeeded, responds ok and appends the one pair <<question, answer>> to *)
(* the history of its session; any other POST /ask leaves the history of   *)
(* the session as it was.                                                  *)
C25_AskAppendsPair ==
    last.op = "ask" =>
        IF last.searchOutcome \in {"ok", "empty"} /\ last.response = "answer"
        THEN /\ last.outcome = "ok"
             /\ session[last.browser] =
                   Append(last.sessionBefore, <<last.query, last.response>>)
        ELSE session[last.browser] = last.sessionBefore

---------------------------------------------------------------------------
(* Properties of the agent routes *)

(* The ids of the agents that were deleted *)
Deleted == usedIds \ DOMAIN agents

(* C24: a step of similarity_search or answer_question, succeeding or      *)
(* failing, leaves the lists of every manager and the content of every     *)
(* directory as they were.                                                 *)
C24_QueriesChangeNothing ==
    [][(last'.op \in {"answer", "chat_agent"}) => (vm' = vm /\ disk' = disk)]_vars

(* An answer from an agent's store that returned chunks *)
C24_Witness ==
    /\ last.op = "chat_agent"
    /\ last.outcome = "answer"
    /\ last.results # <<>>
    /\ DocsOn(disk[AgentDir(last.ns)]) # <<>>

(* C29: the knowledge_items that get_agent_status(agent_id) reports is the *)
(* number of chunks in the agent's own store.                              *)
C29_StatusCountsOwnChunks ==
    (last.op = "status" /\ last.outcome = "ok") =>
        last.knowledge_items = Len(DocsOn(disk[AgentDir(last.ns)]))

(* C30: a chat, training, status or delete request for the id of a deleted *)
(* agent is rejected as not found, calls neither the embedding gateway nor *)
(* the generation service, and changes no manager, directory or agent.     *)
C30_DeletedIsRejected ==
    [][\A agent_id \in Deleted :
          (/\ last' # last
           /\ last'.ns = agent_id
           /\ last'.op \in {"chat_agent", "train", "status", "delete_agent"}) =>
              /\ last'.outcome = "not_found"
              /\ last'.embedCalls = 0
              /\ last'.llmCalls = 0
              /\ vm' = vm
              /\ disk' = disk
              /\ agents' = agents
              /\ agentFiles' = agentFiles]_vars

(* A chat with a deleted agent whose snapshot is still in its directory *)
C30_Witness ==
    /\ last.op = "chat_agent"
    /\ last.ns \in Deleted
    /\ last.outcome = "not_found"
    /\ DocsOn(disk[AgentDir(last.ns)]) # <<>>

====
